---- MODULE Spec2Model ----
(***************************************************************************)
(* Gradual-pattern mining engine of so4gp: bitmap construction             *)
(* (Dataset.init_gp_attributes), the Apriori join                          *)
(* (GRAANK._gen_apriori_candidates), the level-wise loops (GRAANK.discover,*)
(* TGrad.discover), the prologue shared by the search strategies, the      *)
(* position codec (decode_gp), the ant-colony candidate generation and     *)
(* pattern validation (validate_gp).                                       *)
(*                                                                         *)
(* Conventions.  A gradual item is <<column, symbol>> with 0-based column  *)
(* and symbol "+" or "-".  An n x n 0/1 bitmap is the set of its true      *)
(* cells <<i, j>> (rows 1..n): element-wise product is intersection, .T    *)
(* swaps the coordinates, np.sum is the cardinality.  A support or a       *)
(* threshold is a fraction <<num, den>> with den > 0, never reduced.       *)
(***************************************************************************)
EXTENDS Integers, Sequences, FiniteSets, TLC

\* ---- bounds of the explored inputs ----
MaxRows == 3
MaxCols == 2
MaxVal == 2
\* largest apriori_level argument tried
MaxLevelArg == 3
\* most candidates of one join call whose visiting order hides a repeated column
MaxMiss == 1
\* most candidates of one round of TGrad.discover whose fuzzy time lag is not valid
MaxLagInvalid == 1
\* largest position handed to decode_gp
MaxPosition == 20
\* longest item list built by repeated GP.add_gradual_item
MaxItems == 4
\* largest max_iter argument tried
MaxIterArg == 2
\* largest value a counter of the report is followed to
MaxCount == 2
\* most candidates one run of the ant colony generates
MaxGenerations == 3
\* how far past the bounds an unbounded position may lie
Overshoot == 1
\* n_particle argument of the particle swarm (one evaluation per particle and pass)
NParticlesArg == 2

\* the data frame of __tests__.py: columns Age, Salary, Cars, Expenses
dummy_data ==
  << <<30, 3, 1, 10>>, <<35, 2, 2, 8>>, <<40, 4, 2, 7>>, <<50, 1, 1, 6>>, <<52, 7, 1, 2>> >>

Datasets ==
  {dummy_data} \cup
  UNION {[1..n -> [1..c -> 0..MaxVal]] : n \in 3..MaxRows, c \in 1..MaxCols}

\* min_sup arguments: 0, 0.5, 0.9, 1
Thresholds == {<<0, 1>>, <<1, 2>>, <<9, 10>>, <<1, 1>>}

Strategies == {"ACO", "GA", "PSO", "HC", "RS"}

VARIABLES
  data, thd_supp, equal, row_count, col_count,   \* Dataset.__init__
  attr_size, valid_bins, no_bins, supps,         \* init_gp_attributes
  algorithm, ignore_support, apriori_level,      \* the discover call and its arguments
  pc, error, out,                                \* position, raised exception, returned value
  bins, ret, invalid_count, candidate_level,     \* GRAANK.discover locals
  gradual_patterns, str_winner_gps,
  attr_keys, distance_matrix,                    \* strategy prologue
  tgt_col,                                       \* TGrad.target_col ({} where none is passed)
  position, temp_gp, best_gp, bin_arr,           \* decode_gp / validate_gp
  max_iteration, it_count, repeated, counter,    \* the search loop of a strategy
  best_sol, best_patterns, loser_gps, evals, cost_arg, generations,
  time_cols, min_rep, max_step, parallel,        \* TGrad.__init__ / discover_tgp
  steps, mined_steps, patterns

vars ==
  << data, thd_supp, equal, row_count, col_count, attr_size, valid_bins, no_bins, supps,
     algorithm, ignore_support, apriori_level, pc, error, out, bins, ret, invalid_count,
     candidate_level, gradual_patterns, str_winner_gps, attr_keys, distance_matrix,
     tgt_col, position, temp_gp, best_gp, bin_arr, max_iteration, it_count, repeated,
     counter, best_sol, best_patterns, loser_gps, evals, cost_arg, generations,
     time_cols, min_rep, max_step, parallel, steps, mined_steps, patterns >>

codec_vars == << position, temp_gp, best_gp, bin_arr >>

loop_vars ==
  << max_iteration, it_count, repeated, counter, best_sol, best_patterns, loser_gps,
     evals, cost_arg, generations >>

tgp_vars == << time_cols, min_rep, max_step, parallel, steps, mined_steps, patterns >>

\* ---- fractions ----
Geq(a, b) == a[1] * b[2] >= b[1] * a[2]
Gt(a, b) == a[1] * b[2] > b[1] * a[2]

\* round(support, 3)
Round3(s) == << (2000 * s[1] + s[2]) \div (2 * s[2]), 1000 >>

\* ---- bitmaps ----
NpSum(m) == Cardinality(m)
Transpose_same(m) == m
Transpose(m) == {<<p[2], p[1]>> : p \in m}

Support_allcells(m, n) == << NpSum(m), n * n >>
\* float(np.sum(m)) / float(n * (n - 1.0) / 2.0)
Support(m, n) == << 2 * NpSum(m), n * (n - 1) >>

\* temp_pos[i][j] = col_data[j] < col_data[i]  (or <=, diagonal zeroed)
TempPos(col_data, n, eq) ==
  {p \in (1..n) \X (1..n) :
     IF ~eq THEN col_data[p[2]] < col_data[p[1]]
     ELSE col_data[p[2]] <= col_data[p[1]] /\ p[1] # p[2]}

\* attr_data = data.T ; attr_data[col]
ColData(d, col) == [r \in 1..Len(d) |-> d[r][col + 1]]

BinsFrom_notransposed(d, n, ncols, col, thd, eq) ==
  LET Bin(c) == TempPos(ColData(d, c), n, eq)
      ok == {c \in col..(ncols - 1) : Geq(Support(Bin(c), n), thd)}
      Emit[c \in col..ncols] ==
        IF c >= ncols THEN << >>
        ELSE IF c \in ok
             THEN << [gi |-> <<c, "+">>, bin |-> Bin(c)], [gi |-> <<c, "-">>, bin |-> Bin(c)] >>
                  \o Emit[c + 1]
             ELSE Emit[c + 1]
  IN IF col >= ncols THEN << >> ELSE Emit[col]

\* the 'for col in self.attr_cols' loop of init_gp_attributes, from column col on
RECURSIVE BinsFrom(_, _, _, _, _, _)
BinsFrom(d, n, ncols, col, thd, eq) ==
  IF col >= ncols THEN << >>
  ELSE LET temp_pos == TempPos(ColData(d, col), n, eq)
           supp == Support(temp_pos, n)
           rest == BinsFrom(d, n, ncols, col + 1, thd, eq)
       IN IF Geq(supp, thd)
          THEN << [gi |-> <<col, "+">>, bin |-> temp_pos],
                  [gi |-> <<col, "-">>, bin |-> Transpose(temp_pos)] >> \o rest
          ELSE rest

\* supp of every column, as computed at step 2b
ColSupps(d, n, ncols, eq) ==
  [col \in 0..(ncols - 1) |-> Support(TempPos(ColData(d, col), n, eq), n)]

NoBins_lt2(v_bins) == Len(v_bins) < 2
\* len(self.valid_bins) < 3
NoBins(v_bins) == Len(v_bins) < 3

\* ---- gradual items ----
\* GI.inv_arr: the same column with the direction flipped
inv_arr(gi) == << gi[1], IF gi[2] = "+" THEN "-" ELSE "+" >>

\* GI.as_string: str(col) + '_pos' | '_neg' | '_inv', kept as the pair of its two parts
as_string(gi) ==
  << gi[1], IF gi[2] = "+" THEN "pos" ELSE IF gi[2] = "-" THEN "neg" ELSE "inv" >>

\* ---- GRAANK._gen_apriori_candidates ----
\* {gi_bins[i][0]} for a 1-item bin (a tuple), set(gi_bins[i][0]) for a joined one (a set)
GiSet(entry) == IF "gi" \in DOMAIN entry THEN {entry.gi} ELSE entry.gp

\* 'for k in gp_cand' visits a Python set, whose order is not fixed: the repeated_attr
\* loop leaves test = 0 when two items of one column are visited one right after the
\* other, test = 1 otherwise.  Some order puts two such items side by side whenever a
\* column occurs twice; some order keeps them all apart whenever no column occurs
\* twice or the set has at least 3 items (a column occurs at most twice).
HasRepeat(S) == \E x, y \in S : x # y /\ x[1] = y[1]

TestOutcomes(S) ==
  (IF HasRepeat(S) THEN {0} ELSE {}) \cup
  (IF ~HasRepeat(S) \/ Cardinality(S) >= 3 THEN {1} ELSE {})

\* value of 'test' for gp_cand; 'miss' holds the candidates whose visiting order, in
\* this call, keeps every two same-column items apart
TestOf(gp_cand, miss) ==
  LET o == TestOutcomes(gp_cand)
  IN IF o = {1} THEN 1
     ELSE IF o = {0} THEN 0
     ELSE IF gp_cand \in miss THEN 1 ELSE 0

\* has_tgt_col / use_target_col: no target column, or some item of the union is on it
UseTargetCol_any(gp_cand, target_col) == TRUE
UseTargetCol(gp_cand, target_col) ==
  target_col = {} \/ \E y \in gp_cand : y[1] \in target_col

\* 'gp_cand in all_candidates' or 'inv_gp_cand in all_candidates'
AlreadySeen_noinverse(gp_cand, inv_gp_cand, all_candidates) ==
  gp_cand \in all_candidates
AlreadySeen(gp_cand, inv_gp_cand, all_candidates) ==
  gp_cand \in all_candidates \/ inv_gp_cand \in all_candidates

\* gi_bins[i][1] * gi_bins[j][1] on 0/1 matrices
Multiply_or(bin_1, bin_2) == bin_1 \cup bin_2
Multiply(bin_1, bin_2) == bin_1 \cap bin_2

\* 'sup > min_sup or ignore_sup'
Admit_geq(sup, min_sup, ignore_sup) == Geq(sup, min_sup) \/ ignore_sup
Admit(sup, min_sup, ignore_sup) == Gt(sup, min_sup) \/ ignore_sup

\* one pass of the body of the double loop, for the pair (i, j), on the accumulated
\* res / invalid_count / all_candidates
JoinStep(gi_bins, i, j, acc, min_sup, n, target_col, ignore_sup, miss) ==
  LET gi_i == GiSet(gi_bins[i])
      gi_j == GiSet(gi_bins[j])
      gi_o == GiSet(gi_bins[1])
      gp_cand == gi_i \cup gi_j
      inv_gp_cand == {inv_arr(x) : x \in gp_cand}
      use_target_col == UseTargetCol(gp_cand, target_col)
  IN IF use_target_col
        /\ Cardinality(gp_cand) = Cardinality(gi_o) + 1
        /\ ~AlreadySeen(gp_cand, inv_gp_cand, acc.all_candidates)
     THEN LET m == Multiply(gi_bins[i].bin, gi_bins[j].bin)
              sup == Support(m, n)
              seen == acc.all_candidates \cup {gp_cand}
          IN IF TestOf(gp_cand, miss) = 1
             THEN IF Admit(sup, min_sup, ignore_sup)
                  THEN [acc EXCEPT !.res = Append(@, [gp |-> gp_cand, bin |-> m, sup |-> sup]),
                                   !.all_candidates = seen]
                  ELSE [acc EXCEPT !.invalid_count = @ + 1, !.all_candidates = seen]
             ELSE [acc EXCEPT !.all_candidates = seen]
     ELSE acc

\* the inner loop 'for j in range(i + 1, len(gi_bins))' from j on
RECURSIVE JoinInner(_, _, _, _, _, _, _, _, _)
JoinInner(gi_bins, i, j, acc, min_sup, n, target_col, ignore_sup, miss) ==
  IF j > Len(gi_bins) THEN acc
  ELSE LET acc2 == JoinStep(gi_bins, i, j, acc, min_sup, n, target_col, ignore_sup, miss)
       IN IF acc2.invalid_count < 0 THEN acc2  \* never: evaluates acc2 before the next pass
          ELSE JoinInner(gi_bins, i, j + 1, acc2, min_sup, n, target_col, ignore_sup, miss)

\* the outer loop 'for i in range(len(gi_bins) - 1)' from i on
RECURSIVE JoinLoop(_, _, _, _, _, _, _, _)
JoinLoop(gi_bins, i, acc, min_sup, n, target_col, ignore_sup, miss) ==
  IF i > Len(gi_bins) - 1 THEN acc
  ELSE LET acc2 == JoinInner(gi_bins, i, i + 1, acc, min_sup, n, target_col, ignore_sup, miss)
       IN IF acc2.invalid_count < 0 THEN acc2  \* never: evaluates acc2 before the next pass
          ELSE JoinLoop(gi_bins, i + 1, acc2, min_sup, n, target_col, ignore_sup, miss)

\* the value returned: the bare list [] for fewer than 2 entries, else (res, invalid_count)
ShortInputReturn == [kind |-> "list", res |-> << >>]

gen_apriori_candidates(gi_bins, min_sup, n, target_col, ignore_sup, miss) ==
  IF Len(gi_bins) < 2 THEN ShortInputReturn
  ELSE LET acc == JoinLoop(gi_bins, 1,
                           [res |-> << >>, invalid_count |-> 0, all_candidates |-> {}],
                           min_sup, n, target_col, ignore_sup, miss)
       IN [kind |-> "pair", res |-> acc.res, invalid_count |-> acc.invalid_count]

\* the unions of this call whose 'test' depends on the visiting order
Ambiguous(gi_bins) ==
  {c \in {GiSet(gi_bins[i]) \cup GiSet(gi_bins[j]) : i, j \in 1..Len(gi_bins)} :
     /\ Cardinality(c) = Cardinality(GiSet(gi_bins[1])) + 1
     /\ TestOutcomes(c) = {0, 1}}

\* ---- gradual patterns ----
\* ExtGP.remove_subsets: drop every held pattern whose item set is a subset of gi_arr
remove_subsets(gp_list, gi_arr) ==
  SelectSeq(gp_list, LAMBDA gp : ~(gp.gp \subseteq gi_arr))

RECURSIVE CollectFrom_noremove(_, _, _)
CollectFrom_noremove(res, k, acc) ==
  IF k > Len(res) THEN acc
  ELSE LET gp == [gp |-> res[k].gp, sup |-> Round3(res[k].sup)]
       IN CollectFrom_noremove(res, k + 1,
            [gradual_patterns |-> Append(acc.gradual_patterns, gp),
             str_winner_gps |-> Append(acc.str_winner_gps, gp)])

\* the 'for v_bin in valid_bins' loop of GRAANK.discover from entry k on; a pattern is
\* kept as the set of its items (the list order follows the visiting order of the set)
RECURSIVE CollectFrom(_, _, _)
CollectFrom(res, k, acc) ==
  IF k > Len(res) THEN acc
  ELSE LET gp == [gp |-> res[k].gp, sup |-> Round3(res[k].sup)]
       IN CollectFrom(res, k + 1,
            [gradual_patterns |-> Append(remove_subsets(acc.gradual_patterns, res[k].gp), gp),
             str_winner_gps |-> Append(acc.str_winner_gps, gp)])

\* the 'for v_bin in valid_bins' loop of TGrad.discover from entry k on: subsets of the
\* candidate are removed first, and the pattern is appended only when its fuzzy time lag
\* is valid; lag_invalid holds the candidates of this round whose time lag is not valid
\* (the time-delay data are an input of the mining session)
RECURSIVE CollectTGP(_, _, _, _)
CollectTGP(res, k, gp_list, lag_invalid) ==
  IF k > Len(res) THEN gp_list
  ELSE LET pruned == remove_subsets(gp_list, res[k].gp)
           tgp == [gp |-> res[k].gp, sup |-> Round3(res[k].sup)]
       IN CollectTGP(res, k + 1,
                     IF k \in lag_invalid THEN pruned ELSE Append(pruned, tgp),
                     lag_invalid)

\* ---- strategy prologue ----
\* number of axes of np.array(valid_bins): an empty list gives a 1-D array
Ndim(v_bins) == IF Len(v_bins) = 0 THEN 1 ELSE 2

\* [GI(x[0], x[1].decode()).as_string() for x in v_bins[:, 0]]
AttrKeys(v_bins) == [k \in 1..Len(v_bins) |-> as_string(v_bins[k].gi)]

\* AntGRAANK._fit / generate_d: d[i][j] = np.sum(bin_i * bin_j) for different columns
generate_d(v_bins) ==
  [i \in 1..Len(v_bins) |->
    [j \in 1..Len(v_bins) |->
      IF v_bins[i].gi[1] = v_bins[j].gi[1] THEN 0
      ELSE NpSum(v_bins[i].bin \cap v_bins[j].bin)]]

\* ---- search-space codec ----
\* bin(int(position))[2:] as the array of its digits, most significant first
RECURSIVE BinStr(_)
BinStr(p) == IF p < 2 THEN << p >> ELSE Append(BinStr(p \div 2), p % 2)

\* GI.parse_gi: the inverse of as_string ('neg' gives '-', anything else '+')
parse_gi(gi_str) == << gi_str[1], IF gi_str[2] = "neg" THEN "-" ELSE "+" >>

\* GP.contains_attr
contains_attr(gradual_items, gi) ==
  \E k \in 1..Len(gradual_items) : gradual_items[k][1] = gi[1]

\* GP.add_gradual_item: only the symbol is looked at
add_gradual_item(gradual_items, item) ==
  IF item[2] = "-" \/ item[2] = "+" THEN Append(gradual_items, item) ELSE gradual_items

\* GP(): no item, support 0
EmptyGP == [kind |-> "gp", gradual_items |-> << >>, support |-> <<0, 1>>]

RECURSIVE DecodeFrom_nocheck(_, _, _, _)
DecodeFrom_nocheck(keys, bin_str, i, gp) ==
  IF i >= Len(bin_str) THEN gp
  ELSE IF bin_str[i + 1] = 1
       THEN IF i >= Len(keys) THEN [kind |-> "IndexError"]
            ELSE DecodeFrom_nocheck(keys, bin_str, i + 1,
                   [gp EXCEPT !.gradual_items = add_gradual_item(@, parse_gi(keys[i + 1]))])
       ELSE DecodeFrom_nocheck(keys, bin_str, i + 1, gp)

\* 'for i in range(bin_arr.size)' from index i on (0-based, as in the code);
\* attr_keys[i] past the end of the list raises IndexError
RECURSIVE DecodeFrom(_, _, _, _)
DecodeFrom(keys, bin_str, i, gp) ==
  IF i >= Len(bin_str) THEN gp
  ELSE IF bin_str[i + 1] = 1
       THEN IF i >= Len(keys) THEN [kind |-> "IndexError"]
            ELSE LET gi == parse_gi(keys[i + 1])
                 IN DecodeFrom(keys, bin_str, i + 1,
                      IF ~contains_attr(gp.gradual_items, gi)
                      THEN [gp EXCEPT !.gradual_items = add_gradual_item(@, gi)]
                      ELSE gp)
       ELSE DecodeFrom(keys, bin_str, i + 1, gp)

\* decode_gp(attr_keys, position); a position is {} (None) or {p}, p an integer
decode_gp(keys, pos) ==
  IF pos = {} THEN EmptyGP
  ELSE DecodeFrom(keys, BinStr(CHOOSE x \in pos : TRUE), 0, EmptyGP)

\* ---- ant-colony candidates ----
\* 'd[d < fr_count] = 0' with fr_count = thd_supp * a * (a - 1) / 2
PruneD(d, min_supp, a) ==
  [i \in DOMAIN d |->
    [j \in DOMAIN d[i] |->
      IF 2 * d[i][j] * min_supp[2] < min_supp[1] * a * (a - 1) THEN 0 ELSE d[i][j]]]

\* the indices j that 'np.nonzero(cum_prob > r)[0][0]' can give for row i: those with a
\* positive share of the row (the pheromones stay positive); none when the row sums to 0
RowChoices(d, i) == {j \in DOMAIN d[i] : d[i][j] > 0}

\* 'for i in range(m)' of _gen_aco_candidates from row i on, applied to every item list
\* in S that the rows before can have built
RECURSIVE GenAco(_, _, _, _)
GenAco(d, keys, i, S) ==
  IF i > Len(keys) THEN S
  ELSE LET row == RowChoices(d, i)
           Pick(s, j) == LET gi == parse_gi(keys[j])
                         IN IF ~contains_attr(s, gi) THEN add_gradual_item(s, gi) ELSE s
           T == IF row = {} THEN S ELSE {Pick(s, j) : s \in S, j \in row}
       IN IF Cardinality(T) < 0 THEN T  \* never: evaluates T before the next row
          ELSE GenAco(d, keys, i + 1, T)

\* ---- validate_gp ----
\* np.argwhere(np.isin(d_set.valid_bins[:, 0], gi.gradual_item)): the places of gi
ArgWhere(v_bins, gi) == {i \in 1..Len(v_bins) : v_bins[i].gi = gi}

\* 'if supp >= min_supp'
Commit_always(supp, min_supp) == TRUE
Commit(supp, min_supp) == Geq(supp, min_supp)

\* 'if len(gen_pattern.gradual_items) <= 1'
TooFew_none(gradual_items) == Len(gradual_items) < 1
TooFew(gradual_items) == Len(gradual_items) <= 1

\* 'bin_arr = np.array([valid_bin[1], valid_bin[1]])' copies the bitmap of registry entry
\* i: the set of registry entries whose memory bin_arr[0] shares afterwards
NpArray_view(i) == {i}
NpArray(i) == {}

\* 'bin_arr[0] = temp_bin.copy()' seen from the registry: every entry that shares memory
\* with bin_arr[0] takes the written bitmap
WriteThrough(v_bins, shares, temp_bin) ==
  [i \in DOMAIN v_bins |-> IF i \in shares THEN [v_bins[i] EXCEPT !.bin = temp_bin]
                           ELSE v_bins[i]]

\* 'for gi in pattern.gradual_items' from item k on; st holds gen_pattern, bin_arr[0],
\* whether bin_arr has been filled (bin_arr.size > 0), the registry entries bin_arr[0]
\* shares memory with, and d_set.valid_bins as the writes so far leave it
RECURSIVE ValidateFrom(_, _, _, _, _, _)
ValidateFrom(v_bins, min_supp, n, items, k, st) ==
  IF k > Len(items) THEN st
  ELSE LET gi == items[k]
           arg == ArgWhere(st.valid_bins, gi)
       IN IF arg = {} THEN ValidateFrom(v_bins, min_supp, n, items, k + 1, st)
          ELSE LET i == CHOOSE i \in arg : \A j \in arg : i <= j
                   valid_bin == st.valid_bins[i]
                   temp_bin == st.bin_arr \cap valid_bin.bin
                   supp == Support(temp_bin, n)
               IN ValidateFrom(v_bins, min_supp, n, items, k + 1,
                    IF ~st.filled
                    THEN [st EXCEPT
                            !.gen_pattern.gradual_items = add_gradual_item(@, gi),
                            !.bin_arr = valid_bin.bin,
                            !.filled = TRUE,
                            !.shares = NpArray(i)]
                    ELSE IF Commit(supp, min_supp)
                         THEN [st EXCEPT
                                 !.gen_pattern.gradual_items = add_gradual_item(@, gi),
                                 !.gen_pattern.support = Round3(supp),
                                 !.bin_arr = temp_bin,
                                 !.valid_bins = WriteThrough(@, st.shares, temp_bin)]
                         ELSE st)

\* validate_gp(d_set, pattern): the returned pattern, whether it is the object passed
\* in, bin_arr[0] at the end of the loop, and d_set.valid_bins as the call leaves it
validate_gp(v_bins, min_supp, n, pattern) ==
  LET st == ValidateFrom(v_bins, min_supp, n, pattern.gradual_items, 1,
                         [gen_pattern |-> EmptyGP, bin_arr |-> {}, filled |-> FALSE,
                          shares |-> {}, valid_bins |-> v_bins])
  IN IF TooFew(st.gen_pattern.gradual_items)
     THEN [gp |-> pattern, is_pattern |-> TRUE, bin_arr |-> st.bin_arr,
           valid_bins |-> st.valid_bins]
     ELSE [gp |-> st.gen_pattern, is_pattern |-> FALSE, bin_arr |-> st.bin_arr,
           valid_bins |-> st.valid_bins]

\* ---- the mining session ----
NoReturn == [kind |-> "none"]

\* no search loop has started
LoopIdle ==
  /\ max_iteration = 0
  /\ it_count = 0
  /\ repeated = 0
  /\ counter = 0
  /\ best_sol = NoReturn
  /\ best_patterns = << >>
  /\ loser_gps = << >>
  /\ evals = 0
  /\ cost_arg = {}
  /\ generations = 0

\* no TGrad object has been built
TgpIdle ==
  /\ time_cols = {}
  /\ min_rep = <<0, 1>>
  /\ max_step = 0
  /\ parallel = FALSE
  /\ steps = << >>
  /\ mined_steps = << >>
  /\ patterns = << >>

Init ==
  /\ LoopIdle
  /\ TgpIdle
  /\ data \in Datasets
  /\ thd_supp \in Thresholds
  /\ equal \in BOOLEAN
  /\ row_count = Len(data)
  /\ col_count = Len(data[1])
  /\ attr_size = 0
  /\ valid_bins = << >>
  /\ no_bins = FALSE
  /\ supps = << >>
  /\ algorithm = "none"
  /\ ignore_support = FALSE
  /\ apriori_level = {}
  /\ pc = "new"
  /\ error = "none"
  /\ out = NoReturn
  /\ bins = << >>
  /\ ret = NoReturn
  /\ invalid_count = 0
  /\ candidate_level = 0
  /\ gradual_patterns = << >>
  /\ str_winner_gps = << >>
  /\ attr_keys = << >>
  /\ distance_matrix = << >>
  /\ tgt_col = {}
  /\ position = {}
  /\ temp_gp = NoReturn
  /\ best_gp = NoReturn
  /\ bin_arr = {}

\* Dataset.init_gp_attributes (fit_bitmap), attr_data = None
init_gp_attributes ==
  /\ pc = "new"
  /\ attr_size' = row_count
  /\ valid_bins' = BinsFrom(data, row_count, col_count, 0, thd_supp, equal)
  /\ supps' = ColSupps(data, row_count, col_count, equal)
  /\ no_bins' = NoBins(valid_bins')
  /\ pc' = "fitted"
  /\ UNCHANGED << data, thd_supp, equal, row_count, col_count, algorithm, ignore_support,
                  apriori_level, error, out, bins, ret, invalid_count, candidate_level,
                  gradual_patterns, str_winner_gps, attr_keys, distance_matrix,
                  tgt_col, codec_vars,
                  loop_vars, tgp_vars >>

\* GRAANK.discover up to the loop head
discover_begin ==
  /\ pc = "fitted"
  /\ algorithm' = "GRAANK"
  /\ ignore_support' \in BOOLEAN
  /\ apriori_level' \in {{}} \cup {{l} : l \in 1..MaxLevelArg}
  /\ gradual_patterns' = << >>
  /\ str_winner_gps' = << >>
  /\ bins' = valid_bins
  /\ invalid_count' = 0
  /\ candidate_level' = 1
  /\ tgt_col' = {}
  /\ pc' = "while"
  /\ UNCHANGED << data, thd_supp, equal, row_count, col_count, attr_size, valid_bins,
                  no_bins, supps, error, out, ret, attr_keys, distance_matrix, codec_vars,
                  loop_vars, tgp_vars >>

\* one pass of 'while len(valid_bins) > 0'
discover_round ==
  /\ pc = "while"
  /\ algorithm = "GRAANK"
  /\ Len(bins) > 0
  /\ \E miss \in {x \in SUBSET Ambiguous(bins) : Cardinality(x) <= MaxMiss} :
       ret' = gen_apriori_candidates(bins, thd_supp, attr_size, {}, ignore_support, miss)
  /\ IF ret'.kind # "pair"
     THEN \* 'valid_bins, inv_count = []' cannot be unpacked
          /\ pc' = "raised"
          /\ error' = "ValueError"
          /\ UNCHANGED << bins, invalid_count, candidate_level, gradual_patterns,
                          str_winner_gps >>
     ELSE LET acc == CollectFrom(ret'.res, 1,
                       [gradual_patterns |-> gradual_patterns,
                        str_winner_gps |-> str_winner_gps])
          IN /\ bins' = ret'.res
             /\ invalid_count' = invalid_count + ret'.invalid_count
             /\ gradual_patterns' = acc.gradual_patterns
             /\ str_winner_gps' = acc.str_winner_gps
             /\ candidate_level' = candidate_level + 1
             /\ pc' = IF apriori_level # {} /\ \A l \in apriori_level : candidate_level' >= l
                      THEN "output" ELSE "while"
             /\ error' = error
  /\ UNCHANGED << data, thd_supp, equal, row_count, col_count, attr_size, valid_bins,
                  no_bins, supps, algorithm, ignore_support, apriori_level, out, attr_keys,
                  distance_matrix, tgt_col, codec_vars,
                  loop_vars, tgp_vars >>

\* loop exit and the returned JSON object
discover_return ==
  /\ algorithm = "GRAANK"
  /\ pc = "output" \/ (pc = "while" /\ Len(bins) = 0)
  /\ out' = [kind |-> "json", Patterns |-> str_winner_gps, InvalidCount |-> invalid_count]
  /\ pc' = "done"
  /\ UNCHANGED << data, thd_supp, equal, row_count, col_count, attr_size, valid_bins,
                  no_bins, supps, algorithm, ignore_support, apriori_level, error, bins, ret,
                  invalid_count, candidate_level, gradual_patterns, str_winner_gps,
                  attr_keys, distance_matrix, tgt_col, codec_vars,
                  loop_vars, tgp_vars >>

\* TGrad.discover up to the loop head; the columns are the non-time attributes and
\* tgt_col is one of them
tgrad_begin ==
  /\ pc = "fitted"
  /\ algorithm' = "TGrad"
  /\ tgt_col' \in {{c} : c \in 0..(col_count - 1)}
  /\ gradual_patterns' = << >>
  /\ bins' = valid_bins
  /\ invalid_count' = 0
  /\ pc' = "while"
  /\ UNCHANGED << data, thd_supp, equal, row_count, col_count, attr_size, valid_bins,
                  no_bins, supps, ignore_support, apriori_level, error, out, ret,
                  candidate_level, str_winner_gps, attr_keys, distance_matrix, codec_vars,
                  loop_vars, tgp_vars >>

\* one pass of 'while len(valid_bins) > 0' of TGrad.discover
tgrad_round ==
  /\ pc = "while"
  /\ algorithm = "TGrad"
  /\ Len(bins) > 0
  /\ \E miss \in {x \in SUBSET Ambiguous(bins) : Cardinality(x) <= MaxMiss} :
       ret' = gen_apriori_candidates(bins, thd_supp, attr_size, tgt_col, FALSE, miss)
  /\ IF ret'.kind # "pair"
     THEN \* 'valid_bins, inv_count = []' cannot be unpacked
          /\ pc' = "raised"
          /\ error' = "ValueError"
          /\ UNCHANGED << bins, invalid_count, gradual_patterns >>
     ELSE /\ bins' = ret'.res
          /\ invalid_count' = invalid_count + ret'.invalid_count
          /\ \E lag_invalid \in {x \in SUBSET (1..Len(ret'.res)) :
                                    Cardinality(x) <= MaxLagInvalid} :
               gradual_patterns' = CollectTGP(ret'.res, 1, gradual_patterns, lag_invalid)
          /\ pc' = "while"
          /\ error' = error
  /\ UNCHANGED << data, thd_supp, equal, row_count, col_count, attr_size, valid_bins,
                  no_bins, supps, algorithm, ignore_support, apriori_level, out,
                  candidate_level, str_winner_gps, attr_keys, distance_matrix, tgt_col,
                  codec_vars,
                  loop_vars, tgp_vars >>

\* loop exit: the list of temporal patterns is returned
tgrad_return ==
  /\ pc = "while"
  /\ algorithm = "TGrad"
  /\ Len(bins) = 0
  /\ out' = [kind |-> "tgps", gradual_patterns |-> gradual_patterns]
  /\ pc' = "done"
  /\ UNCHANGED << data, thd_supp, equal, row_count, col_count, attr_size, valid_bins,
                  no_bins, supps, algorithm, ignore_support, apriori_level, error, bins, ret,
                  invalid_count, candidate_level, gradual_patterns, str_winner_gps,
                  attr_keys, distance_matrix, tgt_col, codec_vars,
                  loop_vars, tgp_vars >>

\* a search strategy's discover up to the no_bins test: attr_keys from valid_bins[:, 0]
\* (and the distance matrix for the ant colony)
strategy_begin ==
  /\ pc = "fitted"
  /\ algorithm' \in Strategies
  /\ IF Ndim(valid_bins) < 2
     THEN \* too many indices for a 1-D array
          /\ pc' = "raised"
          /\ error' = "IndexError"
          /\ UNCHANGED << attr_keys, distance_matrix >>
     ELSE /\ attr_keys' = AttrKeys(valid_bins)
          /\ distance_matrix' = IF algorithm' = "ACO" THEN generate_d(valid_bins) ELSE << >>
          /\ pc' = "keys"
          /\ error' = error
  /\ UNCHANGED << data, thd_supp, equal, row_count, col_count, attr_size, valid_bins,
                  no_bins, supps, ignore_support, apriori_level, out, bins, ret,
                  invalid_count, candidate_level, gradual_patterns, str_winner_gps,
                  tgt_col, codec_vars,
                  loop_vars, tgp_vars >>

\* 'if self.no_bins: return []'
strategy_no_bins ==
  /\ pc = "keys"
  /\ no_bins
  /\ out' = [kind |-> "list"]
  /\ pc' = "done"
  /\ UNCHANGED << data, thd_supp, equal, row_count, col_count, attr_size, valid_bins,
                  no_bins, supps, algorithm, ignore_support, apriori_level, error, bins, ret,
                  invalid_count, candidate_level, gradual_patterns, str_winner_gps,
                  attr_keys, distance_matrix, tgt_col, codec_vars,
                  loop_vars, tgp_vars >>

\* otherwise the strategy goes on to its search loop
strategy_search ==
  /\ pc = "keys"
  /\ ~no_bins
  /\ pc' = "search"
  /\ UNCHANGED << data, thd_supp, equal, row_count, col_count, attr_size, valid_bins,
                  no_bins, supps, algorithm, ignore_support, apriori_level, error, out, bins,
                  ret, invalid_count, candidate_level, gradual_patterns, str_winner_gps,
                  attr_keys, distance_matrix, tgt_col, codec_vars,
                  loop_vars, tgp_vars >>

\* a position-based strategy decodes a position: decode_gp(attr_keys, position)
strategy_decode ==
  /\ pc = "search"
  /\ algorithm # "ACO"
  /\ position' \in {{}} \cup {{p} : p \in 0..MaxPosition}
  /\ LET gp == decode_gp(attr_keys, position')
     IN IF gp.kind = "IndexError"
        THEN pc' = "raised" /\ error' = "IndexError" /\ temp_gp' = temp_gp
        ELSE pc' = "decoded" /\ error' = error /\ temp_gp' = gp
  /\ UNCHANGED << data, thd_supp, equal, row_count, col_count, attr_size, valid_bins,
                  no_bins, supps, algorithm, ignore_support, apriori_level, out, bins, ret,
                  invalid_count, candidate_level, gradual_patterns, str_winner_gps,
                  attr_keys, distance_matrix, tgt_col, best_gp, bin_arr,
                  loop_vars, tgp_vars >>

\* the ant colony generates a candidate from the pruned distance matrix
aco_candidate ==
  /\ pc = "search"
  /\ algorithm = "ACO"
  /\ \E s \in GenAco(PruneD(distance_matrix, thd_supp, attr_size), attr_keys, 1, {<< >>}) :
       temp_gp' = [EmptyGP EXCEPT !.gradual_items = s]
  /\ pc' = "generated"
  /\ UNCHANGED << data, thd_supp, equal, row_count, col_count, attr_size, valid_bins,
                  no_bins, supps, algorithm, ignore_support, apriori_level, error, out, bins,
                  ret, invalid_count, candidate_level, gradual_patterns, str_winner_gps,
                  attr_keys, distance_matrix, tgt_col, position, best_gp, bin_arr,
                  loop_vars, tgp_vars >>

\* the pattern is validated: validate_gp(d_set, decode_gp(...)), or validate_gp(d_set,
\* rand_gp) for an ant-colony candidate of more than one item
strategy_validate ==
  /\ pc = "decoded" \/ (pc = "generated" /\ Len(temp_gp.gradual_items) > 1)
  /\ LET v == validate_gp(valid_bins, thd_supp, attr_size, temp_gp)
     IN /\ best_gp' = [kind |-> "gp", is_pattern |-> v.is_pattern,
                       gradual_items |-> v.gp.gradual_items, support |-> v.gp.support]
        /\ bin_arr' = v.bin_arr
        /\ valid_bins' = v.valid_bins
  /\ pc' = "validated"
  /\ UNCHANGED << data, thd_supp, equal, row_count, col_count, attr_size,
                  no_bins, supps, algorithm, ignore_support, apriori_level, error, out, bins,
                  ret, invalid_count, candidate_level, gradual_patterns, str_winner_gps,
                  attr_keys, distance_matrix, tgt_col, position, temp_gp,
                  loop_vars, tgp_vars >>

Next ==
  \/ init_gp_attributes
  \/ discover_begin
  \/ discover_round
  \/ discover_return
  \/ tgrad_begin
  \/ tgrad_round
  \/ tgrad_return
  \/ strategy_begin
  \/ strategy_no_bins
  \/ strategy_search
  \/ strategy_decode
  \/ aco_candidate
  \/ strategy_validate

Spec == Init /\ [][Next]_vars

\* ---- the search loops of the strategies ----
PositionStrategies == {"GA", "PSO", "HC", "RS"}

\* var_min = 0 and var_max = int('1' * len(attr_keys), 2)
VarMin == 0
VarMax(keys) == 2^Len(keys) - 1

\* NumericSS.apply_bound on a position
apply_bound_lower(x, var_min, var_max) == IF x < var_min THEN var_min ELSE x
apply_bound(x, var_min, var_max) ==
  LET lo == IF x < var_min THEN var_min ELSE x
  IN IF lo > var_max THEN var_max ELSE lo

\* the particle swarm's test before it evaluates a particle
OutOfRange(x, var_min, var_max) == x < var_min \/ x > var_max

\* GP.get_pattern and GP.inv_pattern as sets
get_pattern(gp) == {gp.gradual_items[k] : k \in 1..Len(gp.gradual_items)}
inv(gi) == << gi[1], IF gi[2] = "+" THEN "-" ELSE IF gi[2] = "-" THEN "+" ELSE "x" >>
inv_pattern(gp) == {inv(gi) : gi \in get_pattern(gp)}

\* check_anti_monotony(lst_p, pattern, subset)
check_anti_monotony(lst_p, pattern, subset) ==
  \E k \in 1..Len(lst_p) :
    IF subset
    THEN \/ get_pattern(pattern) \subseteq get_pattern(lst_p[k])
         \/ inv_pattern(pattern) \subseteq get_pattern(lst_p[k])
    ELSE \/ get_pattern(lst_p[k]) \subseteq get_pattern(pattern)
         \/ get_pattern(lst_p[k]) \subseteq inv_pattern(pattern)

\* is_duplicate(pattern, lst_winners, lst_losers)
is_duplicate(pattern, lst_winners, lst_losers) ==
  \E k \in 1..Len(lst_losers \o lst_winners) :
    LET pat == (lst_losers \o lst_winners)[k]
    IN \/ get_pattern(pattern) = get_pattern(pat)
       \/ inv_pattern(pattern) = get_pattern(pat)

\* 'for gi in pattern.gradual_items' of cost_function from item k on; st holds temp_bin
\* and whether it has been filled (temp_bin.size > 0)
RECURSIVE CostFrom(_, _, _, _)
CostFrom(v_bins, items, k, st) ==
  IF k > Len(items) THEN st
  ELSE LET arg == ArgWhere(v_bins, items[k])
       IN IF arg = {} THEN CostFrom(v_bins, items, k + 1, st)
          ELSE LET valid_bin == v_bins[CHOOSE i \in arg : \A j \in arg : i <= j]
               IN CostFrom(v_bins, items, k + 1,
                    [filled |-> TRUE,
                     temp_bin |-> IF ~st.filled THEN valid_bin.bin
                                  ELSE st.temp_bin \cap valid_bin.bin])

\* NumericSS.cost_function: 1 / bin_sum, or 1 when the product is all zero
cost_function(pos, keys, v_bins) ==
  LET pattern == decode_gp(keys, {pos})
  IN IF pattern.kind = "IndexError" THEN pattern
     ELSE LET st == CostFrom(v_bins, pattern.gradual_items, 1,
                             [filled |-> FALSE, temp_bin |-> {}])
              bin_sum == NpSum(st.temp_bin)
          IN [kind |-> "cost", cost |-> IF bin_sum > 0 THEN <<1, bin_sum>> ELSE <<1, 1>>]

Lt(a, b) == a[1] * b[2] < b[1] * a[2]

\* counters of the report are followed up to MaxCount
Count(c) == IF c < MaxCount THEN c + 1 ELSE c

\* the positions a strategy may draw before bounding, as the integers int(position):
\* random search scales random() in [0, 1); hill climbing steps up from the best
\* position by randrange(var_min, var_max) * step_size with step_size 0.5; crossover and
\* mutation give non-negative values that may pass var_max; a particle moves either way
Raw(alg, best, var_min, var_max) ==
  CASE alg = "RS" -> var_min..(var_max - 1)
    [] alg = "HC" -> best..(best + var_max \div 2)
    [] alg = "GA" -> var_min..(var_max + Overshoot)
    [] OTHER -> (var_min - Overshoot)..(var_max + Overshoot)

\* evaluations of one pass: one candidate (RS, HC), two children before and after
\* mutation (GA with nc = 2), one per particle (PSO)
Evals(alg) ==
  CASE alg = "RS" -> 1
    [] alg = "HC" -> 1
    [] alg = "GA" -> 4
    [] OTHER -> NParticlesArg

\* a position-based strategy up to its loop head: max_iter as passed to the constructor,
\* the initial position (random.randrange(var_min, var_max), or
\* np.random.uniform(var_min, var_max)) and its cost
search_init ==
  /\ pc = "search"
  /\ algorithm \in PositionStrategies
  /\ max_iteration' \in 1..MaxIterArg
  /\ \E p \in VarMin..(VarMax(attr_keys) - 1) :
       LET x == IF algorithm = "HC" THEN apply_bound(p, VarMin, VarMax(attr_keys)) ELSE p
       IN /\ cost_arg' = {x}
          /\ \E c \in {cost_function(x, attr_keys, valid_bins)} :
               IF c.kind = "IndexError"
               THEN pc' = "raised" /\ error' = "IndexError" /\ best_sol' = best_sol
               ELSE /\ pc' = "loop"
                    /\ error' = error
                    /\ best_sol' = [kind |-> "sol", position |-> x, cost |-> c.cost]
  /\ it_count' = 0
  /\ repeated' = 0
  /\ counter' = 0
  /\ evals' = 0
  /\ best_patterns' = << >>
  /\ UNCHANGED << data, thd_supp, equal, row_count, col_count, attr_size, valid_bins,
                  no_bins, supps, algorithm, ignore_support, apriori_level, out, bins, ret,
                  invalid_count, candidate_level, gradual_patterns, str_winner_gps,
                  attr_keys, distance_matrix, tgt_col, codec_vars, loser_gps, generations,
                  tgp_vars >>

\* one evaluation inside a pass: the candidate is bounded and given to cost_function (the
\* particle swarm skips a particle outside the bounds instead), and replaces the best
\* solution when its cost is strictly lower
search_evaluate ==
  /\ pc = "loop"
  /\ algorithm \in PositionStrategies
  /\ evals < Evals(algorithm)
  /\ evals' = evals + 1
  /\ \E raw \in Raw(algorithm, best_sol.position, VarMin, VarMax(attr_keys)) :
       IF algorithm = "PSO" /\ OutOfRange(raw, VarMin, VarMax(attr_keys))
       THEN /\ cost_arg' = {}
            /\ UNCHANGED << best_sol, pc, error >>
       ELSE LET x == IF algorithm = "PSO" THEN raw
                     ELSE apply_bound(raw, VarMin, VarMax(attr_keys))
            IN /\ cost_arg' = {x}
               /\ \E c \in {cost_function(x, attr_keys, valid_bins)} :
                    IF c.kind = "IndexError"
                    THEN pc' = "raised" /\ error' = "IndexError" /\ best_sol' = best_sol
                    ELSE /\ pc' = pc
                         /\ error' = error
                         /\ best_sol' =
                              IF Lt(c.cost, best_sol.cost)
                              THEN [kind |-> "sol", position |-> x, cost |-> c.cost]
                              ELSE best_sol
  /\ UNCHANGED << data, thd_supp, equal, row_count, col_count, attr_size, valid_bins,
                  no_bins, supps, algorithm, ignore_support, apriori_level, out, bins, ret,
                  invalid_count, candidate_level, gradual_patterns, str_winner_gps,
                  attr_keys, distance_matrix, tgt_col, codec_vars, max_iteration, it_count,
                  repeated, counter, best_patterns, loser_gps, generations, tgp_vars >>

\* the end of a pass: the best position is decoded and validated, the pattern is counted
\* as repeated or appended, the counters advance and the loop test is taken
search_select ==
  /\ pc = "loop"
  /\ algorithm \in PositionStrategies
  /\ evals = Evals(algorithm)
  /\ evals' = 0
  /\ cost_arg' = {}
  /\ position' = {best_sol.position}
  /\ \E gp \in {decode_gp(attr_keys, {best_sol.position})} :
        IF gp.kind = "IndexError"
        THEN /\ pc' = "raised"
             /\ error' = "IndexError"
             /\ UNCHANGED << temp_gp, best_gp, bin_arr, valid_bins, best_patterns, repeated,
                             it_count, counter, out >>
        ELSE \E v \in {validate_gp(valid_bins, thd_supp, attr_size, gp)} :
             LET is_present == is_duplicate(v.gp, best_patterns, << >>)
                 is_sub == check_anti_monotony(best_patterns, v.gp, TRUE)
             IN /\ temp_gp' = gp
                /\ best_gp' = [kind |-> "gp", is_pattern |-> v.is_pattern,
                               gradual_items |-> v.gp.gradual_items,
                               support |-> v.gp.support]
                /\ bin_arr' = v.bin_arr
                /\ valid_bins' = v.valid_bins
                /\ repeated' = IF is_present \/ is_sub THEN repeated + 1 ELSE repeated
                /\ best_patterns' =
                     IF ~(is_present \/ is_sub) /\ Geq(v.gp.support, thd_supp)
                     THEN Append(best_patterns, v.gp) ELSE best_patterns
                /\ it_count' = Count(it_count)
                /\ counter' = IF max_iteration = 1 THEN repeated' ELSE it_count'
                /\ error' = error
                /\ IF counter' < max_iteration
                   THEN pc' = "loop" /\ out' = out
                   ELSE /\ pc' = "done"
                        /\ out' = [kind |-> "json", BestPatterns |-> best_patterns',
                                   Iterations |-> it_count']
  /\ UNCHANGED << data, thd_supp, equal, row_count, col_count, attr_size,
                  no_bins, supps, algorithm, ignore_support, apriori_level, bins, ret,
                  invalid_count, candidate_level, gradual_patterns, str_winner_gps,
                  attr_keys, distance_matrix, tgt_col, max_iteration, best_sol, loser_gps,
                  generations, tgp_vars >>

\* the ant colony's pass on candidate rand_gp: the lists and the repeat counter after it,
\* whether 'continue' left the pass before the counters, and the validation if one ran
AcoBody(rand_gp, winners, losers, rep, v_bins, min_supp, n) ==
  LET same == [skipped |-> FALSE, winners |-> winners, losers |-> losers,
               repeated |-> rep, validated |-> FALSE, v |-> NoReturn]
  IN IF Len(rand_gp.gradual_items) > 1
     THEN IF ~is_duplicate(rand_gp, winners, losers)
          THEN IF \/ check_anti_monotony(losers, rand_gp, FALSE)
                  \/ check_anti_monotony(winners, rand_gp, TRUE)
               THEN [same EXCEPT !.skipped = TRUE, !.repeated = 0]
               ELSE LET v == validate_gp(v_bins, min_supp, n, rand_gp)
                        seen == \/ is_duplicate(v.gp, winners, losers)
                                \/ check_anti_monotony(winners, v.gp, TRUE)
                        wins == ~seen /\ Geq(v.gp.support, min_supp)
                        l1 == IF ~seen /\ ~wins THEN Append(losers, v.gp) ELSE losers
                    IN [skipped |-> FALSE,
                        winners |-> IF wins THEN Append(winners, v.gp) ELSE winners,
                        losers |-> IF get_pattern(v.gp) # get_pattern(rand_gp)
                                   THEN Append(l1, rand_gp) ELSE l1,
                        repeated |-> IF seen THEN 1 ELSE 0,
                        validated |-> TRUE, v |-> v]
          ELSE [same EXCEPT !.repeated = rep + 1]
     ELSE same

\* the ant colony up to its loop head: max_iter as passed to the constructor, the
\* distance matrix pruned in place
aco_init ==
  /\ pc = "search"
  /\ algorithm = "ACO"
  /\ max_iteration' \in 1..MaxIterArg
  /\ distance_matrix' = PruneD(distance_matrix, thd_supp, attr_size)
  /\ gradual_patterns' = << >>
  /\ loser_gps' = << >>
  /\ str_winner_gps' = << >>
  /\ it_count' = 0
  /\ repeated' = 0
  /\ counter' = 0
  /\ generations' = 0
  /\ pc' = "loop"
  /\ UNCHANGED << data, thd_supp, equal, row_count, col_count, attr_size, valid_bins,
                  no_bins, supps, algorithm, ignore_support, apriori_level, error, out, bins,
                  ret, invalid_count, candidate_level, attr_keys, tgt_col, codec_vars,
                  best_sol, best_patterns, evals, cost_arg, tgp_vars >>

\* one pass of the ant colony's loop: a candidate is generated, then skipped, validated
\* or counted as repeated; a pass left by 'continue' reaches neither 'it_count += 1' nor
\* the assignment to counter
aco_pass ==
  /\ pc = "loop"
  /\ algorithm = "ACO"
  /\ generations < MaxGenerations
  /\ generations' = generations + 1
  /\ \E s \in GenAco(distance_matrix, attr_keys, 1, {<< >>}) :
       \E b \in {AcoBody([EmptyGP EXCEPT !.gradual_items = s], gradual_patterns, loser_gps,
                          repeated, valid_bins, thd_supp, attr_size)} :
          /\ temp_gp' = [EmptyGP EXCEPT !.gradual_items = s]
          /\ gradual_patterns' = b.winners
          /\ str_winner_gps' = b.winners
          /\ loser_gps' = b.losers
          /\ repeated' = b.repeated
          /\ IF b.validated
             THEN /\ best_gp' = [kind |-> "gp", is_pattern |-> b.v.is_pattern,
                                 gradual_items |-> b.v.gp.gradual_items,
                                 support |-> b.v.gp.support]
                  /\ bin_arr' = b.v.bin_arr
                  /\ valid_bins' = b.v.valid_bins
             ELSE UNCHANGED << best_gp, bin_arr, valid_bins >>
          /\ it_count' = IF b.skipped THEN it_count ELSE Count(it_count)
          /\ counter' = IF b.skipped THEN counter
                        ELSE IF max_iteration = 1 THEN repeated' ELSE it_count'
  /\ IF counter' < max_iteration
     THEN pc' = "loop" /\ out' = out
     ELSE /\ pc' = "done"
          /\ out' = [kind |-> "json", BestPatterns |-> str_winner_gps',
                     Iterations |-> it_count']
  /\ UNCHANGED << data, thd_supp, equal, row_count, col_count, attr_size,
                  no_bins, supps, algorithm, ignore_support, apriori_level, error, bins,
                  ret, invalid_count, candidate_level, attr_keys, distance_matrix, tgt_col,
                  position, max_iteration, best_sol, best_patterns, evals, cost_arg,
                  tgp_vars >>

\* the data frames the position-based loops are run on: two columns that rise together,
\* two columns of which one turns, and one rising column beside a constant one
rising_pair == << <<0, 0>>, <<1, 1>>, <<2, 2>> >>
turning_pair == << <<0, 1>>, <<1, 0>>, <<2, 2>> >>
single_data == << <<0, 1>>, <<1, 1>>, <<2, 1>> >>
SearchDatasets == {rising_pair, turning_pair, single_data}

\* min_sup arguments of the search runs: 0 and 0.5
SearchThresholds == {<<0, 1>>, <<1, 2>>}

InitSearch ==
  /\ Init
  /\ data \in SearchDatasets
  /\ thd_supp \in SearchThresholds

NextSearch ==
  \/ init_gp_attributes
  \/ strategy_begin
  \/ strategy_no_bins
  \/ strategy_search
  \/ search_init
  \/ search_evaluate
  \/ search_select

SpecSearch == InitSearch /\ [][NextSearch]_vars

\* search runs with min_sup = 0.5 and strict comparison on the rising pair and on the
\* single valid column
InitSearchHalf ==
  /\ InitSearch
  /\ data \in {rising_pair, single_data}
  /\ thd_supp = <<1, 2>>
  /\ ~equal

\* the interpreter keeps executing the strategy: a step that can be taken is taken
SpecSearchFair == InitSearchHalf /\ [][NextSearch]_vars /\ WF_vars(NextSearch)

\* the data frames the ant colony is run on: three columns that rise together, and three
\* columns of which one falls and one turns
rising_data == << <<0, 0, 0>>, <<1, 1, 1>>, <<2, 2, 2>> >>
mixed_data == << <<0, 2, 1>>, <<1, 1, 2>>, <<2, 0, 0>> >>
AcoDatasets == {rising_data, mixed_data, single_data}

InitAco ==
  /\ LoopIdle
  /\ TgpIdle
  /\ data \in AcoDatasets
  /\ thd_supp \in SearchThresholds
  /\ equal \in BOOLEAN
  /\ row_count = Len(data)
  /\ col_count = Len(data[1])
  /\ attr_size = 0
  /\ valid_bins = << >>
  /\ no_bins = FALSE
  /\ supps = << >>
  /\ algorithm = "none"
  /\ ignore_support = FALSE
  /\ apriori_level = {}
  /\ pc = "new"
  /\ error = "none"
  /\ out = NoReturn
  /\ bins = << >>
  /\ ret = NoReturn
  /\ invalid_count = 0
  /\ candidate_level = 0
  /\ gradual_patterns = << >>
  /\ str_winner_gps = << >>
  /\ attr_keys = << >>
  /\ distance_matrix = << >>
  /\ tgt_col = {}
  /\ position = {}
  /\ temp_gp = NoReturn
  /\ best_gp = NoReturn
  /\ bin_arr = {}

NextAco ==
  \/ init_gp_attributes
  \/ strategy_begin
  \/ strategy_no_bins
  \/ strategy_search
  \/ aco_init
  \/ aco_pass

SpecAco == InitAco /\ [][NextAco]_vars

\* ---- the temporal sweep: TGrad.__init__ and discover_tgp ----
\* the data frame of the TGrad doctest with the month of its Date column, and a 3-row
\* frame; which columns hold date-times is a property of the frame
dummy_tdata ==
  << <<3, 30, 3, 1, 10>>, <<4, 35, 2, 2, 8>>, <<5, 40, 4, 2, 7>>, <<6, 50, 1, 1, 6>>,
     <<7, 52, 7, 1, 2>> >>
short_tdata == << <<1, 0, 2>>, <<2, 1, 1>>, <<3, 2, 0>> >>
TgpDatasets == {dummy_tdata, short_tdata}

\* min_rep arguments: 0.25, 0.5 (the default), 1
MinReps == {<<1, 4>>, <<1, 2>>, <<1, 1>>}

InitTGP ==
  /\ LoopIdle
  /\ data \in TgpDatasets
  /\ time_cols \in {{0}, {}}
  /\ min_rep = <<0, 1>>
  /\ max_step = 0
  /\ parallel = FALSE
  /\ steps = << >>
  /\ mined_steps = << >>
  /\ patterns = << >>
  /\ thd_supp = <<1, 2>>
  /\ equal = FALSE
  /\ row_count = Len(data)
  /\ col_count = Len(data[1])
  /\ attr_size = 0
  /\ valid_bins = << >>
  /\ no_bins = FALSE
  /\ supps = << >>
  /\ algorithm = "none"
  /\ ignore_support = FALSE
  /\ apriori_level = {}
  /\ pc = "new"
  /\ error = "none"
  /\ out = NoReturn
  /\ bins = << >>
  /\ ret = NoReturn
  /\ invalid_count = 0
  /\ candidate_level = 0
  /\ gradual_patterns = << >>
  /\ str_winner_gps = << >>
  /\ attr_keys = << >>
  /\ distance_matrix = << >>
  /\ tgt_col = {}
  /\ position = {}
  /\ temp_gp = NoReturn
  /\ best_gp = NoReturn
  /\ bin_arr = {}

\* row_count - int(min_rep * row_count)
MaxStep(rows, rep) == rows - (rep[1] * rows) \div rep[2]

\* TGrad.__init__: the target column is stored as passed; a frame without a date-time
\* column raises
tgp_new ==
  /\ pc = "new"
  /\ algorithm' = "TGrad"
  /\ tgt_col' \in {{t} : t \in -1..col_count}
  /\ min_rep' \in MinReps
  /\ max_step' = MaxStep(row_count, min_rep')
  /\ IF Cardinality(time_cols) > 0
     THEN pc' = "tgp" /\ error' = error
     ELSE pc' = "raised" /\ error' = "Exception"
  /\ UNCHANGED << data, thd_supp, equal, row_count, col_count, attr_size, valid_bins,
                  no_bins, supps, ignore_support, apriori_level, out, bins, ret,
                  invalid_count, candidate_level, gradual_patterns, str_winner_gps,
                  attr_keys, distance_matrix, codec_vars, loop_vars, time_cols, parallel,
                  steps, mined_steps, patterns >>

\* the steps handed to transform_and_mine: range(max_step) by pool.map,
\* step + 1 for step in range(max_step) by the for loop
StepsOf(par, m) ==
  IF par THEN [i \in 1..m |-> i - 1] ELSE [i \in 1..m |-> i]

\* discover_tgp up to the first call of transform_and_mine
tgp_begin ==
  /\ pc = "tgp"
  /\ parallel' \in BOOLEAN
  /\ steps' = StepsOf(parallel', max_step)
  /\ gradual_patterns' = << >>
  /\ mined_steps' = << >>
  /\ patterns' = << >>
  /\ pc' = "steps"
  /\ UNCHANGED << data, thd_supp, equal, row_count, col_count, attr_size, valid_bins,
                  no_bins, supps, algorithm, ignore_support, apriori_level, error, out, bins,
                  ret, invalid_count, candidate_level, str_winner_gps, attr_keys,
                  distance_matrix, tgt_col, codec_vars, loop_vars, time_cols, min_rep,
                  max_step >>

\* what transform_and_mine(step) does before it mines: the time stamps of the rows are
\* read (ok says whether all could be), then the target column is tested
TargetCheck(ok, t_col, t_cols, ncols) ==
  IF ~ok THEN "Exception"
  ELSE IF t_col \cap t_cols # {} THEN "Exception"
  ELSE IF \E t \in t_col : t < 0 \/ t >= ncols THEN "Exception"
  ELSE "none"

\* one call of transform_and_mine: it raises, or TGrad.discover runs on the transformed
\* data and returns patterns, returns none (False), or raises ValueError when a join
\* round returns the bare empty list; the patterns of a step are kept by their step
tgp_step ==
  /\ pc = "steps"
  /\ Len(steps) > 0
  /\ steps' = Tail(steps)
  /\ \E ok \in BOOLEAN, mined \in {"patterns", "none", "ValueError"} :
       LET step == Head(steps)
           check == TargetCheck(ok, tgt_col, time_cols, col_count)
       IN IF check # "none"
          THEN /\ pc' = "raised"
               /\ error' = check
               /\ UNCHANGED << mined_steps, patterns >>
          ELSE /\ mined_steps' = Append(mined_steps, step)
               /\ IF mined = "ValueError"
                  THEN pc' = "raised" /\ error' = "ValueError" /\ patterns' = patterns
                  ELSE /\ pc' = pc
                       /\ error' = error
                       /\ patterns' = IF mined = "patterns"
                                      THEN Append(patterns, [step |-> step])
                                      ELSE patterns
  /\ UNCHANGED << data, thd_supp, equal, row_count, col_count, attr_size, valid_bins,
                  no_bins, supps, algorithm, ignore_support, apriori_level, out, bins, ret,
                  invalid_count, candidate_level, gradual_patterns, str_winner_gps,
                  attr_keys, distance_matrix, tgt_col, codec_vars, loop_vars, time_cols,
                  min_rep, max_step, parallel >>

\* the collected patterns are flattened into gradual_patterns and reported
tgp_return ==
  /\ pc = "steps"
  /\ Len(steps) = 0
  /\ gradual_patterns' = patterns
  /\ out' = [kind |-> "json", Patterns |-> patterns]
  /\ pc' = "done"
  /\ UNCHANGED << data, thd_supp, equal, row_count, col_count, attr_size, valid_bins,
                  no_bins, supps, algorithm, ignore_support, apriori_level, error, bins,
                  ret, invalid_count, candidate_level, str_winner_gps, attr_keys,
                  distance_matrix, tgt_col, codec_vars, loop_vars, tgp_vars >>

NextTGP ==
  \/ tgp_new
  \/ tgp_begin
  \/ tgp_step
  \/ tgp_return

SpecTGP == InitTGP /\ [][NextTGP]_vars

\* ---- a gradual pattern on its own ----
\* the symbols a GI may be built with ('x' marks an irrelevant column)
Symbols == {"+", "-", "x"}

\* gp = GP() outside any mining session
InitGP ==
  /\ LoopIdle
  /\ TgpIdle
  /\ data = dummy_data
  /\ thd_supp = <<1, 2>>
  /\ equal = FALSE
  /\ row_count = Len(data)
  /\ col_count = Len(data[1])
  /\ attr_size = 0
  /\ valid_bins = << >>
  /\ no_bins = FALSE
  /\ supps = << >>
  /\ algorithm = "none"
  /\ ignore_support = FALSE
  /\ apriori_level = {}
  /\ pc = "gp"
  /\ error = "none"
  /\ out = NoReturn
  /\ bins = << >>
  /\ ret = NoReturn
  /\ invalid_count = 0
  /\ candidate_level = 0
  /\ gradual_patterns = << >>
  /\ str_winner_gps = << >>
  /\ attr_keys = << >>
  /\ distance_matrix = << >>
  /\ tgt_col = {}
  /\ position = {}
  /\ temp_gp = EmptyGP
  /\ best_gp = NoReturn
  /\ bin_arr = {}

\* gp.add_gradual_item(GI(col, symbol))
gp_add ==
  /\ pc = "gp"
  /\ Len(temp_gp.gradual_items) < MaxItems
  /\ \E col \in 0..(MaxCols - 1), symbol \in Symbols :
       temp_gp' = [temp_gp EXCEPT !.gradual_items = add_gradual_item(@, <<col, symbol>>)]
  /\ UNCHANGED << data, thd_supp, equal, row_count, col_count, attr_size, valid_bins,
                  no_bins, supps, algorithm, ignore_support, apriori_level, pc, error, out,
                  bins, ret, invalid_count, candidate_level, gradual_patterns,
                  str_winner_gps, attr_keys, distance_matrix, tgt_col, position, best_gp,
                  bin_arr,
                  loop_vars, tgp_vars >>

NextGP == gp_add

SpecGP == InitGP /\ [][NextGP]_vars

\* ---- properties ----
Age == 0
Salary == 1
Cars == 2
Expenses == 3

One(s) == s[1] = s[2]

\* the doctest scenario: the 5-row data frame, strict comparison, default arguments
DummyRun(min_sup) ==
  data = dummy_data /\ thd_supp = min_sup /\ ~equal /\ algorithm = "GRAANK" /\ ~ignore_support

AgeUpExpensesDown == {<<Age, "+">>, <<Expenses, "-">>}

\* C1: on the 5-row data frame with min_sup = 0.5 and strict comparison, the product of
\* the Age-increasing and Expenses-decreasing bitmaps has support 1.0, and the first
\* join round returns the candidate {Age+, Expenses-} with support 1.0
C1_AgeExpensesFullSupport ==
  (data = dummy_data /\ thd_supp = <<1, 2>> /\ ~equal /\ pc # "new") =>
    /\ \E a, b \in 1..Len(valid_bins) :
         /\ valid_bins[a].gi = <<Age, "+">>
         /\ valid_bins[b].gi = <<Expenses, "-">>
         /\ One(Support(valid_bins[a].bin \cap valid_bins[b].bin, attr_size))
    /\ (algorithm = "GRAANK" /\ candidate_level = 2) =>
         /\ ret.kind = "pair"
         /\ \E k \in 1..Len(ret.res) : ret.res[k].gp = AgeUpExpensesDown /\ One(ret.res[k].sup)

C1_Witness ==
  /\ DummyRun(<<1, 2>>)
  /\ candidate_level = 2
  /\ \E k \in 1..Len(ret.res) : ret.res[k].gp = AgeUpExpensesDown /\ One(ret.res[k].sup)

C3_DiscoverNeverRaises ==
  algorithm = "GRAANK" => (pc # "raised" /\ error = "none")

\* C4: every call of _gen_apriori_candidates returns a pair (next_bins, invalid_count),
\* also for an input list with fewer than 2 entries
C4_ReturnsPair ==
  ret.kind \in {"none", "pair"}

\* C5: when bitmap construction leaves too few valid bins (zero included), a search
\* strategy returns the empty result without raising and without entering its search
C5_NoBinsReturnsEmpty ==
  (algorithm \in Strategies /\ no_bins) =>
    /\ error = "none"
    /\ pc \in {"keys", "done"}
    /\ pc = "done" => out.kind = "list"

\* C6 as stated: no_bins is set exactly when fewer than 2 valid bins result
C6_Original ==
  pc # "new" => (no_bins <=> Len(valid_bins) < 2)

ClearingColumns == {c \in DOMAIN supps : Geq(supps[c], thd_supp)}

\* C6 amended: no_bins is set exactly when fewer than 3 valid bins result, that is when
\* fewer than two columns clear the threshold (each clearing column gives two bins)
C6_NoBinsIffFewerThanTwoColumns ==
  pc # "new" =>
    /\ no_bins <=> Cardinality(ClearingColumns) < 2
    /\ Len(valid_bins) = 2 * Cardinality(ClearingColumns)

C6_Witness ==
  pc # "new" /\ no_bins /\ Len(valid_bins) = 2

\* C7: under both comparisons the bins of a column are emitted together, increasing
\* right before decreasing, and the decreasing bitmap is the transpose of the
\* increasing one
C7_DecreasingIsTranspose ==
  pc # "new" =>
    /\ Len(valid_bins) % 2 = 0
    /\ \A k \in 1..Len(valid_bins) :
         k % 2 = 1 =>
           /\ valid_bins[k].gi[2] = "+"
           /\ valid_bins[k + 1].gi = <<valid_bins[k].gi[1], "-">>
           /\ \A i, j \in 1..row_count :
                <<i, j>> \in valid_bins[k + 1].bin <=> <<j, i>> \in valid_bins[k].bin

C7_Witness ==
  /\ pc # "new"
  /\ equal
  /\ Len(valid_bins) = 4
  /\ valid_bins[3].bin # valid_bins[4].bin

\* C8: for both settings of the equality flag the support computed for every column
\* lies in [0, 1]
C8_SupportInUnitInterval ==
  pc # "new" => \A c \in DOMAIN supps : supps[c][1] >= 0 /\ supps[c][1] <= supps[c][2]

\* C9: a bitmap without any true entry never appears among the valid bins, for every
\* threshold, 0 included
C9_EmptyBitmapExcluded ==
  \A k \in 1..Len(valid_bins) : NpSum(valid_bins[k].bin) > 0

\* C10: no candidate returned by _gen_apriori_candidates holds two gradual items of the
\* same column
C10_NoRepeatedColumn ==
  ret.kind = "pair" => \A k \in 1..Len(ret.res) : ~HasRepeat(ret.res[k].gp)

\* the component-wise inverse of an item set
InvSet(S) == {inv_arr(x) : x \in S}

\* C11: within one call of _gen_apriori_candidates no two returned entries have equal
\* item sets, and no entry's item set is the component-wise inverse of another's
C11_NoDuplicateCandidates ==
  ret.kind = "pair" =>
    \A a, b \in 1..Len(ret.res) :
      a # b => /\ ret.res[a].gp # ret.res[b].gp
               /\ ret.res[a].gp # InvSet(ret.res[b].gp)

\* a returned 3-item candidate that three different pairs of the joined 2-item entries
\* produce (all three of its 2-item subsets were returned by the round before)
C11_Witness ==
  /\ algorithm = "GRAANK"
  /\ candidate_level = 3
  /\ ret.kind = "pair"
  /\ \E k \in 1..Len(ret.res) :
       /\ Cardinality(ret.res[k].gp) = 3
       /\ Cardinality({w \in 1..Len(str_winner_gps) :
                         /\ Cardinality(str_winner_gps[w].gp) = 2
                         /\ str_winner_gps[w].gp \subseteq ret.res[k].gp}) = 3

\* a step of the model that is one call of _gen_apriori_candidates returning a pair
JoinRound == pc = "while" /\ pc' \in {"while", "output"}

\* the unordered pairs joined by a call on gi_bins, the union of a pair, and the unions
\* the claims call accepted: one item more than the entries, no column twice, on the
\* target column if one is given
JoinPairs(gi_bins) == {p \in (1..Len(gi_bins)) \X (1..Len(gi_bins)) : p[1] < p[2]}
UnionOf(gi_bins, p) == GiSet(gi_bins[p[1]]) \cup GiSet(gi_bins[p[2]])
AcceptedPairs(gi_bins, t_col) ==
  {p \in JoinPairs(gi_bins) :
     LET c == UnionOf(gi_bins, p)
     IN /\ Cardinality(c) = Cardinality(GiSet(gi_bins[1])) + 1
        /\ ~HasRepeat(c)
        /\ (t_col = {} \/ \E y \in c : y[1] \in t_col)}

C13_TargetColumnInEveryCandidate ==
  tgt_col # {} =>
    /\ ret.kind = "pair" =>
         \A k \in 1..Len(ret.res) : \E y \in ret.res[k].gp : y[1] \in tgt_col
    /\ \A k \in 1..Len(gradual_patterns) :
         \E y \in gradual_patterns[k].gp : y[1] \in tgt_col

\* a run with a target column in which a pattern was built although two valid bins off
\* the target column join to a union whose support clears min_sup
C13_Witness ==
  /\ algorithm = "TGrad"
  /\ ret.kind = "pair"
  /\ Len(gradual_patterns) >= 1
  /\ \E p \in JoinPairs(valid_bins) :
       LET c == UnionOf(valid_bins, p)
       IN /\ ~HasRepeat(c)
          /\ \A y \in c : y[1] \notin tgt_col
          /\ Gt(Support(valid_bins[p[1]].bin \cap valid_bins[p[2]].bin, attr_size), thd_supp)

\* C14: the pattern list accumulated by GRAANK.discover never holds a pattern whose
\* item set is a subset of another held pattern's item set
C14_NoSubsetPatternKept ==
  algorithm = "GRAANK" =>
    \A a, b \in 1..Len(gradual_patterns) :
      a # b => ~(gradual_patterns[a].gp \subseteq gradual_patterns[b].gp)

\* discover returned after a later level's pattern removed an earlier level's subset
C14_Witness ==
  /\ algorithm = "GRAANK"
  /\ pc = "done"
  /\ Len(gradual_patterns) >= 1
  /\ \E w \in 1..Len(str_winner_gps) :
       /\ \A k \in 1..Len(gradual_patterns) : gradual_patterns[k].gp # str_winner_gps[w].gp
       /\ \E k \in 1..Len(gradual_patterns) :
            str_winner_gps[w].gp \subseteq gradual_patterns[k].gp

\* C15: every joined candidate's support is at most the support of each of the two
\* entries it was joined from, and of two patterns emitted in one run of which one's
\* item set is a subset of the other's, the smaller one has the greater or equal support
C15_SupportAntiMonotone ==
  /\ [](\A a, b \in 1..Len(str_winner_gps) :
          str_winner_gps[a].gp \subseteq str_winner_gps[b].gp
            => Geq(str_winner_gps[a].sup, str_winner_gps[b].sup))
  /\ [](\A a, b \in 1..Len(gradual_patterns) :
          gradual_patterns[a].gp \subseteq gradual_patterns[b].gp
            => Geq(gradual_patterns[a].sup, gradual_patterns[b].sup))
  /\ [][JoinRound =>
          \A k \in 1..Len(ret'.res) : \A p \in JoinPairs(bins) :
            ret'.res[k].gp = UnionOf(bins, p) =>
              /\ Geq(Support(bins[p[1]].bin, attr_size), ret'.res[k].sup)
              /\ Geq(Support(bins[p[2]].bin, attr_size), ret'.res[k].sup)
      ]_vars

\* two emitted patterns, one inside the other, the larger with the smaller support
C15_Witness ==
  /\ algorithm = "GRAANK"
  /\ \E a, b \in 1..Len(str_winner_gps) :
       /\ str_winner_gps[a].gp \subseteq str_winner_gps[b].gp
       /\ Gt(str_winner_gps[a].sup, str_winner_gps[b].sup)

\* the number of binary digits of p, and digit i of p written with w digits (digit 1 is
\* the most significant one)
BitLength(p) == CHOOSE w \in 1..(MaxPosition + 2) : p < 2^w /\ (w = 1 \/ p >= 2^(w - 1))
BitAt(p, w, i) == (p \div 2^(w - i)) % 2

\* the keys a digit string selects, later keys of an already selected column dropped
KeptKeys(keys, p, w) ==
  {i \in 1..w :
     /\ i <= Len(keys)
     /\ BitAt(p, w, i) = 1
     /\ \A j \in 1..(i - 1) : BitAt(p, w, j) = 1 => keys[j][1] # keys[i][1]}

ItemsOf(gp) == {gp.gradual_items[k] : k \in 1..Len(gp.gradual_items)}

\* C16: decode_gp accepts every non-negative position: digits past the end of the keys
\* list are ignored and the call does not raise
C16_DecodeAcceptsAnyPosition ==
  position # {} => pc # "raised"

\* C17: for a selection of the k keys written as k binary digits, decoding the integer
\* with these digits gives exactly the selected items, apart from later items of an
\* already selected column
C17_RoundTripWidthK ==
  (pc = "decoded" /\ position # {}) =>
    \A p \in position :
      p < 2^Len(attr_keys) =>
        ItemsOf(temp_gp) = {parse_gi(attr_keys[i]) : i \in KeptKeys(attr_keys, p, Len(attr_keys))}

\* C18: the decoded pattern never holds two items of one column, and of the selected
\* keys of one column the one with the lowest index in the keys list is the one kept
C18_DecodedColumnsUnique ==
  (pc = "decoded" /\ position # {}) =>
    \A p \in position :
      /\ \A a, b \in 1..Len(temp_gp.gradual_items) :
           a # b => temp_gp.gradual_items[a][1] # temp_gp.gradual_items[b][1]
      /\ ItemsOf(temp_gp) =
           {parse_gi(attr_keys[i]) : i \in KeptKeys(attr_keys, p, BitLength(p))}

\* a decoded position with two selected keys of one column
C18_Witness ==
  /\ pc = "decoded"
  /\ \E p \in position :
       /\ \E i, j \in 1..BitLength(p) :
            /\ i < j /\ j <= Len(attr_keys)
            /\ BitAt(p, BitLength(p), i) = 1 /\ BitAt(p, BitLength(p), j) = 1
            /\ attr_keys[i][1] = attr_keys[j][1]
       /\ Len(temp_gp.gradual_items) >= 2

\* the registry's bitmap of an item, and whether the registry holds the item
Found(gi) == \E i \in 1..Len(valid_bins) : valid_bins[i].gi = gi
RegistryBin(gi) ==
  valid_bins[CHOOSE i \in 1..Len(valid_bins) :
               valid_bins[i].gi = gi /\ \A j \in 1..(i - 1) : valid_bins[j].gi # gi].bin

\* the AND of the registry bitmaps of the items at the places A of a candidate
AndOfItems(items, A) ==
  {c \in (1..attr_size) \X (1..attr_size) : \A k \in A : c \in RegistryBin(items[k])}

\* A holds the places a greedy pass in candidate order accepts: the first item found in
\* the registry, and each later found item whose bitmap, AND-ed with the bitmaps of the
\* places accepted before it, has support >= min_supp
GreedyAccepts(items, A) ==
  /\ \A k \in A : Found(items[k])
  /\ \A k \in 1..Len(items) :
       Found(items[k]) =>
         IF \A j \in 1..(k - 1) : ~Found(items[j])
         THEN k \in A
         ELSE k \in A <=>
                Geq(Support(AndOfItems(items, {j \in A : j < k} \cup {k}), attr_size),
                    thd_supp)

\* the items at the places A, in candidate order
Restrict(items, A) ==
  [k \in 1..Cardinality(A) |->
     items[CHOOSE i \in A : Cardinality({j \in A : j < i}) = k - 1]]

SameFraction(a, b) == a[1] * b[2] = b[1] * a[2]

C19Body(exact) ==
  pc = "validated" =>
    LET items == temp_gp.gradual_items
    IN \E A \in SUBSET (1..Len(items)) :
         /\ GreedyAccepts(items, A)
         /\ A # {} => bin_arr = AndOfItems(items, A)
         /\ Cardinality(A) >= 2 =>
              LET s == Support(AndOfItems(items, A), attr_size)
              IN /\ best_gp.gradual_items = Restrict(items, A)
                 /\ Geq(s, thd_supp)
                 /\ IF exact
                    THEN SameFraction(best_gp.support, s) /\ Geq(best_gp.support, thd_supp)
                    ELSE best_gp.support = Round3(s)

\* C19 as stated: validate_gp accepts the first item found in the registry, then each
\* later item exactly when AND-ing its bitmap into the working bitmap keeps support
\* >= min_supp (a rejected item leaves the working bitmap as it was); with two or more
\* accepted items the returned support equals the support of the AND of the accepted
\* items' bitmaps and is >= min_supp
C19_Original == C19Body(TRUE)

\* C19 amended: the same greedy construction; with two or more accepted items the
\* returned support is the support s of the AND of the accepted items' bitmaps rounded
\* to 3 decimals (set_support), where s >= min_supp
C19_GreedyValidation == C19Body(FALSE)

\* a validation that rejected an item and accepted a later one into the unchanged
\* working bitmap
C19_Witness ==
  /\ pc = "validated"
  /\ ~best_gp.is_pattern
  /\ \E i, j \in 1..Len(temp_gp.gradual_items) :
       /\ 1 < i /\ i < j
       /\ temp_gp.gradual_items[i] \notin ItemsOf(best_gp)
       /\ temp_gp.gradual_items[j] \in ItemsOf(best_gp)

\* C20: when at most one item survives, validate_gp returns the pattern it was given
\* (same items in the same order, same support); otherwise it returns a new pattern
\* whose items are a subsequence of the candidate's
C20_OriginalReturnedWhenTooFew ==
  pc = "validated" =>
    LET items == temp_gp.gradual_items
    IN \E A \in SUBSET (1..Len(items)) :
         /\ GreedyAccepts(items, A)
         /\ IF Cardinality(A) <= 1
            THEN /\ best_gp.is_pattern
                 /\ best_gp.gradual_items = items
                 /\ best_gp.support = temp_gp.support
            ELSE /\ ~best_gp.is_pattern
                 /\ \E B \in SUBSET (1..Len(items)) :
                      best_gp.gradual_items = Restrict(items, B)

\* a candidate of two or more items of which only one survived
C20_Witness ==
  /\ pc = "validated"
  /\ best_gp.is_pattern
  /\ Len(temp_gp.gradual_items) >= 2
  /\ bin_arr = RegistryBin(temp_gp.gradual_items[1])

\* C26: when apriori_level = L is passed (any L >= 1), no pattern emitted by
\* GRAANK.discover holds more than L gradual items
C26_NoPatternAboveLevel ==
  (algorithm = "GRAANK" /\ apriori_level # {}) =>
    \A k \in 1..Len(str_winner_gps) :
      \A l \in apriori_level : Cardinality(str_winner_gps[k].gp) <= l

\* C30: when GRAANK.discover returns, "Patterns" lists exactly the patterns held in
\* gradual_patterns, in the same order; a pattern pruned as a subset is not listed
C30_PatternsAreTheKeptPatterns ==
  (algorithm = "GRAANK" /\ pc = "done") => out.Patterns = gradual_patterns

\* C21: validating a pattern and generating the next level of candidates leave the
\* registry of valid bins as bitmap construction built it
C21_RegistryUnchanged ==
  [][pc # "new" => valid_bins' = valid_bins]_vars

\* a validation that wrote a product into its working buffer: the buffer differs from
\* the registry bitmap it was filled from
C21_Witness ==
  /\ pc = "validated"
  /\ ~best_gp.is_pattern
  /\ Len(best_gp.gradual_items) >= 2
  /\ \E i \in 1..Len(valid_bins) :
       valid_bins[i].gi = best_gp.gradual_items[1] /\ valid_bins[i].bin # bin_arr

\* C22: adding a gradual item to a pattern is rejected when the pattern already holds
\* an item on the same column, so no two items of a pattern share a column
C22_SameColumnRejected ==
  pc = "gp" =>
    \A a, b \in 1..Len(temp_gp.gradual_items) :
      a # b => temp_gp.gradual_items[a][1] # temp_gp.gradual_items[b][1]

\* C23: in the genetic, particle-swarm, hill-climbing and random searches every position
\* passed to cost_function or to decode_gp lies in [0, 2^k - 1], k the number of
\* attribute keys, after any number of passes
C23_PositionsWithinBounds ==
  algorithm \in PositionStrategies =>
    \A p \in cost_arg \cup position : VarMin <= p /\ p <= VarMax(attr_keys)

\* after a first pass the genetic search evaluated a child at the upper bound
C23_Witness ==
  /\ algorithm = "GA"
  /\ pc = "loop"
  /\ it_count >= 1
  /\ evals >= 1
  /\ cost_arg = {VarMax(attr_keys)}
  /\ position # {}

\* C25: max_iter is the largest number of passes of a search loop, the default
\* max_iter = 1 included: the reported "Iterations" never exceeds max_iter
C25_IterationsAtMostMaxIter ==
  (algorithm \in PositionStrategies /\ pc = "done" /\ out.kind = "json") =>
    out.Iterations <= max_iteration

\* C27: with the default max_iter = 1 the loop of every position-based strategy ends,
\* whatever candidates are drawn, also when at most one item survives validation
C27_DefaultLoopTerminates ==
  (algorithm \in PositionStrategies /\ pc = "loop" /\ max_iteration = 1)
    ~> (pc \in {"done", "raised"})

\* C28: in the ant colony's loop with max_iter = m > 1 every pass increments the
\* iteration counter, the passes skipped as superset of a loser or subset of a winner
\* included, and the loop ends after exactly m candidate generations
C28_EveryPassCounts ==
  (algorithm = "ACO" /\ pc \in {"loop", "done"} /\ max_iteration > 1) =>
    /\ it_count = generations
    /\ pc = "done" => generations = max_iteration

\* the target column passed to TGrad is a date-time column or no column of the frame
BadTarget == \E t \in tgt_col : t \in time_cols \/ t < 0 \/ t >= col_count

\* C24: when the target column is out of range or a date-time column, discover_tgp
\* always ends with an error, for every min_rep and every number of rows; it never
\* returns (an empty pattern list included)
C24_BadTargetAlwaysAborts ==
  (algorithm = "TGrad" /\ BadTarget) => pc # "done"

\* C29: discover_tgp hands the same steps, 1..max_step in this order, to
\* transform_and_mine whether parallel is True or False, and collects the patterns of
\* these steps in this order
C29_SameStepsEitherWay ==
  (algorithm = "TGrad" /\ pc = "done") =>
    /\ mined_steps = [i \in 1..max_step |-> i]
    /\ \A k \in 1..Len(patterns) : patterns[k].step \in 1..max_step

====
